---- MODULE Spec2Model ----
(***************************************************************************)
(* Model of app.py, the Legal Document Analyzer: party-name normalization  *)
(* (_clean_parties), detection with one retry (detect_parties), and the    *)
(* three-stage Streamlit session flow.                                     *)
(*                                                                         *)
(* A Python str is a sequence of one-character strings, so that strip(),   *)
(* lower(), split(",") and the placeholder regex are computed character by *)
(* character.                                                              *)
(***************************************************************************)
EXTENDS Integers, Sequences, FiniteSets, TLC

VARIABLES
    stage, doc, parties, analysis,  \* st.session_state entries
    cleared,                        \* TRUE after session_state.clear(), until the next run
    upload,                         \* value of the file_uploader widget
    manual,                         \* value of the manual-entry text_input
    party,                          \* the script's `party`: <<>> is None, <<s>> a selected name
    view,                           \* widgets rendered by the last finished script run
    pc,                             \* position of the script
    request,                        \* remote requests in flight (prompts passed to chat)
    raws,                           \* completions received by the latest detect_parties / analyze_for_party call
    results,                        \* values ask() has returned in the latest detect_parties call
    calls,                          \* chat() invocations of the latest detect_parties / analyze_for_party call
    err,                            \* exception that ended the last script run, "" if none
    cl_raw, cl_out, cl_again, cl_pc \* harness applying _clean_parties to an input list

vars ==
    <<stage, doc, parties, analysis, cleared, upload, manual, party, view, pc, request,
      raws, results, calls, err, cl_raw, cl_out, cl_again, cl_pc>>

sessionVars ==
    <<stage, doc, parties, analysis, cleared, upload, manual, party, view, pc, request,
      raws, results, calls, err>>

cleanVars ==
    <<cl_raw, cl_out, cl_again, cl_pc>>

(***************************************************************************)
(* Bounds                                                                  *)
(***************************************************************************)
MaxRaw ==
    3

MaxFiles ==
    2

(***************************************************************************)
(* Strings                                                                 *)
(***************************************************************************)
S_Empty ==
    <<>>

S_Blank ==
    <<" ", " ">>

S_Tab ==
    <<"\t">>

S_AcmeCorp ==
    <<"A", "c", "m", "e", " ", "C", "o", "r", "p">>

S_ACME_CORP ==
    <<"A", "C", "M", "E", " ", "C", "O", "R", "P">>

S_AcmePadded ==
    <<" ", "A", "c", "m", "e", " ", "C", "o", "r", "p", " ">>

S_Globex ==
    <<"G", "l", "o", "b", "e", "x", " ", "I", "n", "c", ".">>

S_PartyA ==
    <<"P", "a", "r", "t", "y", " ", "A">>

S_party_b ==
    <<"p", "a", "r", "t", "y", " ", " ", "b">>

S_PARTY1 ==
    <<"P", "A", "R", "T", "Y", "1">>

S_PartyAPadded ==
    <<" ", "P", "a", "r", "t", "y", " ", "A", "\t">>

S_Plaintiff ==
    <<"P", "l", "a", "i", "n", "t", "i", "f", "f">>

S_defendant ==
    <<"d", "e", "f", "e", "n", "d", "a", "n", "t">>

S_PartyPlanning ==
    <<"P", "a", "r", "t", "y", " ", "P", "l", "a", "n", "n", "i", "n", "g", " ", "C", "o", ".">>

S_PartyBus ==
    <<"P", "a", "r", "t", "y", " ", "B", "u", "s", " ", "L", "t", "d">>

S_CoDefendant ==
    <<"C", "o", "-", "D", "e", "f", "e", "n", "d", "a", "n", "t">>

M_Two ==
    <<"A", "c", "m", "e", " ", "C", "o", "r", "p", ",", " ", "G", "l", "o", "b", "e", "x", " ", "I", "n", "c", ".">>

M_One ==
    <<"A", "c", "m", "e", " ", "C", "o", "r", "p">>

M_Placeholders ==
    <<"P", "a", "r", "t", "y", " ", "A", ",", " ", "P", "a", "r", "t", "y", " ", "B">>

M_CaseDup ==
    <<"A", "c", "m", "e", " ", "C", "o", "r", "p", ",", "a", "c", "m", "e", " ", "c", "o", "r", "p">>

M_Blanks ==
    <<" ", ",", " ", "A", "c", "m", "e", " ", "C", "o", "r", "p", ",", ",">>

R_Plain ==
    <<"r", "e", "p", "o", "r", "t">>

R_Padded ==
    <<" ", "r", "e", "p", "o", "r", "t", "\t">>

W_party ==
    <<"p", "a", "r", "t", "y">>

W_plaintiff ==
    <<"p", "l", "a", "i", "n", "t", "i", "f", "f">>

W_defendant ==
    <<"d", "e", "f", "e", "n", "d", "a", "n", "t">>

UPPER ==
    <<"A", "B", "C", "D", "E", "F", "G", "H", "I", "J", "K", "L", "M", "N", "O", "P", "Q", "R", "S", "T", "U", "V", "W", "X", "Y", "Z">>

LOWER ==
    <<"a", "b", "c", "d", "e", "f", "g", "h", "i", "j", "k", "l", "m", "n", "o", "p", "q", "r", "s", "t", "u", "v", "w", "x", "y", "z">>

WS ==
    {" ", "\t"}

IsSpace(c) ==
    c \in WS

\* str.lower() on one character
LowerChar(c) ==
    IF \E i \in 1..Len(UPPER) : UPPER[i] = c
    THEN LOWER[CHOOSE i \in 1..Len(UPPER) : UPPER[i] = c]
    ELSE c

\* str.lower()
LowerStr(s) ==
    [i \in 1..Len(s) |-> LowerChar(s[i])]

RECURSIVE LStrip(_)
LStrip(s) ==
    IF s # <<>> /\ IsSpace(Head(s)) THEN LStrip(Tail(s)) ELSE s

RECURSIVE RStrip(_)
RStrip(s) ==
    IF s # <<>> /\ IsSpace(s[Len(s)]) THEN RStrip(SubSeq(s, 1, Len(s) - 1)) ELSE s

\* str.strip()
Strip(s) ==
    RStrip(LStrip(s))

\* Python truthiness of a str: `not p` is true exactly for the empty string
Truthy(s) ==
    s # <<>>

\* PLACEHOLDER_RE.match(s): the pattern matches a prefix of s
PLACEHOLDER_RE_match(s) ==
    LET l == LowerStr(s)
    IN  \/ (Len(l) >= Len(W_plaintiff) /\ SubSeq(l, 1, Len(W_plaintiff)) = W_plaintiff)
        \/ (Len(l) >= Len(W_defendant) /\ SubSeq(l, 1, Len(W_defendant)) = W_defendant)
        \/ /\ Len(l) > Len(W_party)
           /\ SubSeq(l, 1, Len(W_party)) = W_party
           /\ \E k \in (Len(W_party) + 1)..Len(l) :
                 /\ l[k] \in {"a", "b", "1", "2"}
                 /\ \A i \in (Len(W_party) + 1)..(k - 1) : IsSpace(l[i])

\* PLACEHOLDER_RE.fullmatch(s): party\s*[ab12]|plaintiff|defendant, IGNORECASE
PLACEHOLDER_RE_fullmatch(s) ==
    LET l == LowerStr(s)
    IN  \/ l = W_plaintiff
        \/ l = W_defendant
        \/ /\ Len(l) > Len(W_party)
           /\ SubSeq(l, 1, Len(W_party)) = W_party
           /\ l[Len(l)] \in {"a", "b", "1", "2"}
           /\ \A i \in (Len(W_party) + 1)..(Len(l) - 1) : IsSpace(l[i])

\* a dedup key that keeps the case
Key_CaseSensitive(p) ==
    Strip(p)

\* the dedup key of line 77
Key(p) ==
    LowerStr(Strip(p))

\* one iteration of the loop of _clean_parties over the rest of raw
RECURSIVE CleanLoop(_, _, _)
CleanLoop(raw, out, seen) ==
    IF raw = <<>> THEN out
    ELSE LET p == Head(raw)
             rest == Tail(raw)
         IN  IF ~Truthy(p) THEN CleanLoop(rest, out, seen)
             ELSE IF PLACEHOLDER_RE_fullmatch(Strip(p)) THEN CleanLoop(rest, out, seen)
             ELSE IF Key(p) \notin seen
                  THEN CleanLoop(rest, Append(out, Strip(p)), seen \cup {Key(p)})
                  ELSE CleanLoop(rest, out, seen)

_clean_parties(raw) ==
    CleanLoop(raw, <<>>, {})

(***************************************************************************)
(* Configuration and uploaded files                                        *)
(***************************************************************************)
MAX_CHARS ==
    30000

\* A file is known by the text its parser extracts: which text, and how long.
NoFile ==
    [id |-> 0, len |-> 0]

FileLens ==
    {0, 1, MAX_CHARS, MAX_CHARS + 1}

Files ==
    {[id |-> i, len |-> n] : i \in 1..MaxFiles, n \in FileLens}

\* the str "" as a document
EmptyText ==
    [id |-> 0, len |-> 0]

\* the extracted text, returned whole
load_text_Untruncated(f) ==
    IF f.len = 0 THEN EmptyText
    ELSE [id |-> f.id, len |-> f.len]

\* text[:MAX_CHARS]: the first len characters of the text of file id
load_text(f) ==
    IF f.len = 0 THEN EmptyText
    ELSE [id |-> f.id, len |-> IF f.len < MAX_CHARS THEN f.len ELSE MAX_CHARS]

(***************************************************************************)
(* Remote completions.  A completion is either text json.loads rejects or  *)
(* a JSON value [kind, val]; an object is known by its "parties" member    *)
(* (val = <<>> when the key is absent, <<v>> otherwise).                   *)
(***************************************************************************)
JText ==
    [kind |-> "text", val |-> <<>>]

JNull ==
    [kind |-> "null", val |-> <<>>]

JNum(n) ==
    [kind |-> "number", val |-> <<n>>]

JStr(s) ==
    [kind |-> "string", val |-> s]

JArr(items) ==
    [kind |-> "array", val |-> items]

JObjEmpty ==
    [kind |-> "object", val |-> <<>>]

JObj(v) ==
    [kind |-> "object", val |-> <<v>>]

JNames(names) ==
    JObj(JArr([i \in 1..Len(names) |-> JStr(names[i])]))

\* completions the detection stub can return
DetectReplies ==
    << JText,
       JArr(<<>>),
       JNum(5),
       JObjEmpty,
       JObj(JNull),
       JObj(JStr(S_AcmeCorp)),
       JObj(JArr(<<JNum(7), JStr(S_AcmeCorp)>>)),
       JObj(JArr(<<JNull, JStr(S_AcmeCorp), JStr(S_Globex)>>)),
       JNames(<<>>),
       JNames(<<S_AcmeCorp>>),
       JNames(<<S_PartyA, S_party_b>>),
       JNames(<<S_AcmeCorp, S_Globex>>),
       JNames(<<S_AcmeCorp, S_ACME_CORP>>),
       JNames(<<S_Blank, S_AcmeCorp>>),
       JNames(<<S_AcmeCorp, S_Globex, S_PartyPlanning>>) >>

\* completions the analysis stub can return
AnalyzeReplies ==
    <<R_Plain, R_Padded, S_Empty>>

\* texts a user can type into the manual-entry input
ManualTexts ==
    <<S_Empty, M_One, M_Two, M_Placeholders, M_CaseDup, M_Blanks>>

\* Python truthiness of a decoded JSON value
TruthyValue(v) ==
    CASE v.kind = "null" -> FALSE
      [] v.kind = "number" -> v.val[1] # 0
      [] OTHER -> v.val # <<>>

\* the items `for p in raw` visits, or <<"TypeError">> when raw is not iterable
Iterate(v) ==
    CASE v.kind = "array" -> [exc |-> "", val |-> v.val]
      [] v.kind = "string" -> [exc |-> "", val |-> [i \in 1..Len(v.val) |-> JStr(<<v.val[i]>>)]]
      [] OTHER -> [exc |-> "TypeError", val |-> <<>>]

IsStr(v) ==
    v.kind = "string"

\* _clean_parties on a decoded value: a falsy item is skipped by `not p`,
\* p.strip() on a truthy item that is not a str raises AttributeError
CleanValue(v) ==
    LET it == Iterate(v)
        strs == SelectSeq(it.val, IsStr)
    IN  IF it.exc # "" THEN it
        ELSE IF \E i \in 1..Len(it.val) : ~IsStr(it.val[i]) /\ TruthyValue(it.val[i])
             THEN [exc |-> "AttributeError", val |-> <<>>]
             ELSE [exc |-> "", val |-> _clean_parties([i \in 1..Len(strs) |-> strs[i].val])]

\* ask() without the except clause
ask_NoCatch(raw) ==
    IF raw.kind = "text" THEN [exc |-> "JSONDecodeError", val |-> <<>>]
    ELSE IF raw.kind # "object" THEN [exc |-> "AttributeError", val |-> <<>>]
    ELSE IF raw.val = <<>> THEN CleanValue(JArr(<<>>))
    ELSE CleanValue(raw.val[1])

\* ask(): json.loads(raw).get("parties", []) with only JSONDecodeError caught
ask(raw) ==
    IF raw.kind = "text" THEN CleanValue(JArr(<<>>))
    ELSE IF raw.kind # "object" THEN [exc |-> "AttributeError", val |-> <<>>]
    ELSE IF raw.val = <<>> THEN CleanValue(JArr(<<>>))
    ELSE CleanValue(raw.val[1])

\* a retry threshold that is off by one
NeedsRetry_OffByOne(ps) ==
    Len(ps) <= 2

\* line 102: the first result triggers the second request
NeedsRetry(ps) ==
    Len(ps) < 2

\* a selector shown for a single party
EnoughParties_One(ps) ==
    Len(ps) >= 1

\* line 153: stage 1 shows the selector
EnoughParties(ps) ==
    Len(ps) >= 2

\* line 161: a manual entry is accepted
ManualAccepted(party_list) ==
    Len(party_list) >= 2

\* manual.split(",")
RECURSIVE SplitLoop(_, _, _)
SplitLoop(s, cur, acc) ==
    IF s = <<>> THEN Append(acc, cur)
    ELSE IF Head(s) = "," THEN SplitLoop(Tail(s), <<>>, Append(acc, cur))
    ELSE SplitLoop(Tail(s), Append(cur, Head(s)), acc)

Split(s) ==
    SplitLoop(s, <<>>, <<>>)

KeepsText(p) ==
    Truthy(Strip(p))

\* line 160: [p.strip() for p in manual.split(",") if p.strip()]
ParseManual(manual_text) ==
    LET kept == SelectSeq(Split(manual_text), KeepsText)
    IN  [i \in 1..Len(kept) |-> Strip(kept[i])]

\* a chat() that returns the completion as received
chat_Unstripped(completion) ==
    completion

\* chat(): the completion, stripped
chat(completion) ==
    Strip(completion)

DetectPrompt(extra, text) ==
    [op |-> "detect", extra |-> extra, party |-> <<>>, text |-> text]

AnalyzePrompt(p, text) ==
    [op |-> "analyze", extra |-> "", party |-> p, text |-> text]

(***************************************************************************)
(* The session                                                             *)
(***************************************************************************)
CleanIdle ==
    /\ cl_raw = <<>>
    /\ cl_out = <<>>
    /\ cl_again = <<>>
    /\ cl_pc = "off"

\* lines 133-139, and the first run of the script with nothing uploaded
Init ==
    /\ stage = 0
    /\ doc = EmptyText
    /\ parties = <<>>
    /\ analysis = <<>>
    /\ cleared = FALSE
    /\ upload = NoFile
    /\ manual = <<>>
    /\ party = <<>>
    /\ view = "upload"
    /\ pc = "idle"
    /\ request = <<>>
    /\ raws = <<>>
    /\ results = <<>>
    /\ calls = 0
    /\ err = ""
    /\ CleanIdle

\* a detection that is started without waiting for its completion
Stage0_NoWait(up) ==
    /\ doc' = load_text(up)
    /\ request' = <<DetectPrompt("", doc')>>
    /\ calls' = 1
    /\ raws' = <<>>
    /\ results' = <<>>
    /\ stage' = 1
    /\ pc' = "rerun"
    /\ view' = "upload"
    /\ manual' = <<>>
    /\ party' = <<>>
    /\ cleared' = FALSE
    /\ UNCHANGED <<parties, analysis>>

\* lines 144-147 up to the first chat() call of detect_parties
Stage0(up) ==
    /\ doc' = load_text(up)
    /\ request' = <<DetectPrompt("", doc')>>
    /\ calls' = 1
    /\ raws' = <<>>
    /\ results' = <<>>
    /\ pc' = "ask1"
    /\ view' = "upload"
    /\ manual' = <<>>
    /\ party' = <<>>
    /\ cleared' = FALSE
    /\ UNCHANGED <<stage, parties, analysis>>

\* a stage-1 run that extracts the text of the uploaded file again
Stage1End_Reloads(ps, p, man, v, clickA) ==
    /\ parties' = ps
    /\ party' = p
    /\ manual' = man
    /\ view' = v
    /\ cleared' = FALSE
    /\ doc' = load_text(upload')
    /\ UNCHANGED <<stage, analysis>>
    /\ IF p # <<>> /\ Truthy(p[1]) /\ clickA
       THEN /\ request' = <<AnalyzePrompt(p[1], doc')>>
            /\ calls' = 1
            /\ raws' = <<>>
            /\ results' = <<>>
            /\ pc' = "analyze"
       ELSE /\ request' = <<>>
            /\ pc' = "idle"
            /\ UNCHANGED <<calls, raws, results>>

\* lines 167-171 up to the chat() call of analyze_for_party, or the end of the run
Stage1End(ps, p, man, v, clickA) ==
    /\ parties' = ps
    /\ party' = p
    /\ manual' = man
    /\ view' = v
    /\ cleared' = FALSE
    /\ UNCHANGED <<stage, doc, analysis>>
    /\ IF p # <<>> /\ Truthy(p[1]) /\ clickA
       THEN /\ request' = <<AnalyzePrompt(p[1], doc)>>
            /\ calls' = 1
            /\ raws' = <<>>
            /\ results' = <<>>
            /\ pc' = "analyze"
       ELSE /\ request' = <<>>
            /\ pc' = "idle"
            /\ UNCHANGED <<calls, raws, results>>

\* lines 152-165: the selector, or the warning and the manual-entry input
Stage1(man, choice, clickA) ==
    IF EnoughParties(parties)
    THEN Stage1End(parties, IF choice # <<>> THEN choice ELSE <<parties[1]>>,
                   <<>>, "selector", clickA)
    ELSE LET party_list == ParseManual(man)
         IN  IF ManualAccepted(party_list)
             THEN Stage1End(party_list, <<party_list[1]>>, man, "manual_selector", clickA)
             ELSE Stage1End(parties, <<>>, man, "manual", clickA)

\* lines 174-178
Stage2(clickN) ==
    /\ request' = <<>>
    /\ manual' = <<>>
    /\ party' = <<>>
    /\ UNCHANGED <<calls, raws, results>>
    /\ IF clickN
       THEN /\ stage' = 0
            /\ doc' = EmptyText
            /\ parties' = <<>>
            /\ analysis' = <<>>
            /\ cleared' = TRUE
            /\ pc' = "rerun"
            /\ view' = view
       ELSE /\ cleared' = FALSE
            /\ pc' = "idle"
            /\ view' = "report"
            /\ UNCHANGED <<stage, doc, parties, analysis>>

\* lines 180-181: nothing uploaded at stage 0
NoUpload ==
    /\ view' = "upload"
    /\ pc' = "idle"
    /\ request' = <<>>
    /\ manual' = <<>>
    /\ party' = <<>>
    /\ cleared' = FALSE
    /\ UNCHANGED <<stage, doc, parties, analysis, calls, raws, results>>

\* one run of the script from line 133, with the widget values the host hands it
Script(up, man, choice, clickA, clickN) ==
    /\ upload' = up
    /\ err' = ""
    /\ UNCHANGED cleanVars
    /\ IF up # NoFile /\ stage = 0 THEN Stage0(up)
       ELSE IF stage = 1 THEN Stage1(man, choice, clickA)
       ELSE IF stage = 2 THEN Stage2(clickN)
       ELSE NoUpload

\* widget values that persist into the next run
KeptManual ==
    IF view \in {"manual", "manual_selector"} THEN manual ELSE <<>>

KeptChoice ==
    IF view = "selector" THEN party ELSE <<>>

\* the user uploads, replaces or removes the file
Upload ==
    /\ pc = "idle"
    /\ \E f \in Files \cup {NoFile} : Script(f, KeptManual, KeptChoice, FALSE, FALSE)

\* the user types into "Parties (comma-separated)"
EnterManual ==
    /\ pc = "idle"
    /\ view \in {"manual", "manual_selector"}
    /\ \E i \in 1..Len(ManualTexts) :
          Script(upload, ManualTexts[i], KeptChoice, FALSE, FALSE)

\* the user picks an entry of the "I represent" selectbox
SelectParty ==
    /\ pc = "idle"
    /\ view \in {"selector", "manual_selector"}
    /\ \E i \in 1..Len(parties) :
          Script(upload, KeptManual,
                 IF view = "selector" THEN <<parties[i]>> ELSE <<>>, FALSE, FALSE)

\* the user presses "Analyze for My Side"
ClickAnalyze ==
    /\ pc = "idle"
    /\ view \in {"selector", "manual_selector"}
    /\ party # <<>> /\ Truthy(party[1])
    /\ Script(upload, KeptManual, KeptChoice, TRUE, FALSE)

\* the user presses "New Document"
ClickNew ==
    /\ pc = "idle"
    /\ view = "report"
    /\ Script(upload, <<>>, <<>>, FALSE, TRUE)

\* st.rerun(): the script runs again; after clear() the host may or may not
\* still hand the uploaded file to the file_uploader
Rerun ==
    /\ pc = "rerun"
    /\ \E up \in (IF cleared THEN {upload, NoFile} ELSE {upload}) :
          Script(up, <<>>, <<>>, FALSE, FALSE)

\* an exception leaves the script: the run ends, the session keeps its values
Abort(exc) ==
    /\ err' = exc
    /\ pc' = "idle"
    /\ request' = <<>>
    /\ UNCHANGED <<stage, doc, parties, analysis, cleared, upload, manual, party,
                   view, calls, results>>

\* a return of detect_parties that skips the selection stage
DetectReturn_SkipsStage(ps) ==
    /\ parties' = ps
    /\ stage' = 2
    /\ pc' = "rerun"
    /\ request' = <<>>
    /\ err' = ""
    /\ UNCHANGED <<doc, analysis, cleared, upload, manual, party, view, calls>>

\* lines 147-149: detect_parties returned
DetectReturn(ps) ==
    /\ parties' = ps
    /\ stage' = 1
    /\ pc' = "rerun"
    /\ request' = <<>>
    /\ err' = ""
    /\ UNCHANGED <<doc, analysis, cleared, upload, manual, party, view, calls>>

\* lines 101-102: the first request's completion arrives
FirstReply ==
    /\ pc = "ask1"
    /\ \E i \in 1..Len(DetectReplies) :
          LET o == ask(DetectReplies[i])
          IN  /\ raws' = Append(raws, DetectReplies[i])
              /\ IF o.exc # "" THEN Abort(o.exc)
                 ELSE /\ results' = Append(results, o.val)
                      /\ IF NeedsRetry(o.val)
                         THEN /\ request' = <<DetectPrompt("reminder", doc)>>
                              /\ calls' = calls + 1
                              /\ pc' = "ask2"
                              /\ err' = ""
                              /\ UNCHANGED <<stage, doc, parties, analysis, cleared,
                                             upload, manual, party, view>>
                         ELSE DetectReturn(o.val)
    /\ UNCHANGED cleanVars

\* lines 104-105: the second request's completion arrives
RetryReply ==
    /\ pc = "ask2"
    /\ \E i \in 1..Len(DetectReplies) :
          LET o == ask(DetectReplies[i])
          IN  /\ raws' = Append(raws, DetectReplies[i])
              /\ IF o.exc # "" THEN Abort(o.exc)
                 ELSE /\ results' = Append(results, o.val)
                      /\ DetectReturn(o.val)
    /\ UNCHANGED cleanVars

\* lines 169-171: the analysis completion arrives
AnalyzeReply ==
    /\ pc = "analyze"
    /\ \E i \in 1..Len(AnalyzeReplies) :
          /\ raws' = Append(raws, AnalyzeReplies[i])
          /\ analysis' = chat(AnalyzeReplies[i])
    /\ stage' = 2
    /\ pc' = "rerun"
    /\ request' = <<>>
    /\ err' = ""
    /\ UNCHANGED <<doc, parties, cleared, upload, manual, party, view, calls, results>>
    /\ UNCHANGED cleanVars

\* a failure of the first detection request that is swallowed and retried
RemoteFailure_Retries ==
    /\ pc \in {"ask1", "ask2", "analyze"}
    /\ IF pc = "ask1"
       THEN /\ err' = "APIError"
            /\ request' = <<DetectPrompt("reminder", doc)>>
            /\ calls' = calls + 1
            /\ pc' = "ask2"
            /\ UNCHANGED <<stage, doc, parties, analysis, cleared, upload, manual,
                           party, view, results>>
       ELSE Abort("APIError")
    /\ UNCHANGED raws
    /\ UNCHANGED cleanVars

\* openai raises (service unavailable, authentication failure)
RemoteFailure ==
    /\ pc \in {"ask1", "ask2", "analyze"}
    /\ Abort("APIError")
    /\ UNCHANGED raws
    /\ UNCHANGED cleanVars

Next ==
    \/ Upload
    \/ EnterManual
    \/ SelectParty
    \/ ClickAnalyze
    \/ ClickNew
    \/ Rerun
    \/ FirstReply
    \/ RetryReply
    \/ AnalyzeReply
    \/ RemoteFailure

Spec ==
    Init /\ [][Next]_vars

(***************************************************************************)
(* _clean_parties as a pure function: every input list over Names of      *)
(* length at most MaxRaw is cleaned, and the result is cleaned again.      *)
(***************************************************************************)
Names ==
    {S_Empty, S_Blank, S_Tab, S_AcmeCorp, S_ACME_CORP, S_AcmePadded, S_Globex,
     S_PartyA, S_party_b, S_PARTY1, S_PartyAPadded, S_Plaintiff, S_defendant,
     S_PartyPlanning, S_PartyBus, S_CoDefendant}

RawLists ==
    UNION {[1..n -> Names] : n \in 0..MaxRaw}

SessionIdle ==
    /\ stage = 0
    /\ doc = EmptyText
    /\ parties = <<>>
    /\ analysis = <<>>
    /\ cleared = FALSE
    /\ upload = NoFile
    /\ manual = <<>>
    /\ party = <<>>
    /\ view = "upload"
    /\ pc = "idle"
    /\ request = <<>>
    /\ raws = <<>>
    /\ results = <<>>
    /\ calls = 0
    /\ err = ""

InitClean ==
    /\ SessionIdle
    /\ cl_raw \in RawLists
    /\ cl_out = <<>>
    /\ cl_again = <<>>
    /\ cl_pc = "start"

CleanOnce ==
    /\ cl_pc = "start"
    /\ cl_out' = _clean_parties(cl_raw)
    /\ cl_pc' = "cleaned"
    /\ UNCHANGED <<cl_raw, cl_again>>
    /\ UNCHANGED sessionVars

CleanAgain ==
    /\ cl_pc = "cleaned"
    /\ cl_again' = _clean_parties(cl_out)
    /\ cl_pc' = "done"
    /\ UNCHANGED <<cl_raw, cl_out>>
    /\ UNCHANGED sessionVars

NextClean ==
    \/ CleanOnce
    \/ CleanAgain

SpecClean ==
    InitClean /\ [][NextClean]_vars

(***************************************************************************)
(* Properties                                                              *)
(***************************************************************************)
Last(s) ==
    s[Len(s)]

\* a detection completion arrives in this step
DetectReplied ==
    /\ pc \in {"ask1", "ask2"}
    /\ Len(raws') = Len(raws) + 1

\* the completion has the expected shape {"parties": [string, ...]}
ExpectedShape(r) ==
    /\ r.kind = "object"
    /\ r.val # <<>>
    /\ r.val[1].kind = "array"
    /\ \A i \in 1..Len(r.val[1].val) : r.val[1].val[i].kind = "string"

\* C1: with fewer than two parties in the session, stage 1 shows the warning
\* and the manual-entry input without a selector, and no analysis request is
\* in flight while the party list holds fewer than two entries.
C1_ManualFallback ==
    /\ (pc = "idle" /\ stage = 1 /\ Len(parties) < 2) => (view = "manual" /\ party = <<>>)
    /\ (pc = "analyze" \/ \E i \in 1..Len(request) : request[i].op = "analyze")
          => Len(parties) >= 2

C1_Witness ==
    /\ pc = "idle"
    /\ stage = 1
    /\ Len(results) = 2
    /\ Len(parties) = 1
    /\ view = "manual"
    /\ manual = M_One

\* C2: a detect_parties call whose requests are answered has called the
\* remote service once when the first normalized result has at least two
\* entries and twice otherwise, never three times.
C2_CallCount ==
    [][(pc \in {"ask1", "ask2"} /\ pc' \notin {"ask1", "ask2"} /\ err' # "APIError")
          => calls' = (IF Len(results') >= 1 /\ Len(results'[1]) >= 2 THEN 1 ELSE 2)]_vars

\* C3: when the first normalized result is insufficient and the second
\* request is answered, detect_parties returns the normalized result of the
\* second request.
C3_ReturnsRetryResult ==
    [][(pc = "ask2" /\ DetectReplied)
          => /\ pc' = "rerun"
             /\ err' = ""
             /\ Len(results') = 2
             /\ parties' = results'[2]]_vars

\* C4: a detection completion that is not of the shape {"parties": [string, ...]}
\* contributes an empty party list and raises no error.
C4_MalformedIsEmpty ==
    [][(DetectReplied /\ ~ExpectedShape(Last(raws')))
          => /\ err' = ""
             /\ Len(results') = Len(results) + 1
             /\ Last(results') = <<>>]_vars

\* C5: completions that are not valid JSON yield zero parties without an
\* exception; after the second one the session goes from stage 0 to stage 1
\* with an empty party list, and the next run shows the manual-entry path.
C5_NotJsonIsEmpty ==
    [][/\ (DetectReplied /\ Last(raws').kind = "text")
            => /\ err' = ""
               /\ Last(results') = <<>>
               /\ pc = "ask1" => (pc' = "ask2" /\ stage' = 0)
               /\ pc = "ask2" => (stage = 0 /\ stage' = 1 /\ parties' = <<>> /\ pc' = "rerun")
       /\ (pc = "rerun" /\ stage = 1 /\ parties = <<>>)
            => (pc' = "idle" /\ view' = "manual" /\ stage' = 1)]_vars

C5_Witness ==
    /\ pc = "idle"
    /\ stage = 1
    /\ view = "manual"
    /\ parties = <<>>
    /\ raws = <<JText, JText>>
    /\ err = ""

\* C6: cleaning an already cleaned list returns it unchanged.
C6_Idempotent ==
    cl_pc = "done" => cl_again = cl_out

\* C7: the cleaned list has no empty entry, no whitespace-only entry and no
\* entry with leading or trailing whitespace.
C7_NoBlankOutput ==
    cl_pc \in {"cleaned", "done"}
        => \A i \in 1..Len(cl_out) :
              /\ cl_out[i] # <<>>
              /\ Strip(cl_out[i]) # <<>>
              /\ Strip(cl_out[i]) = cl_out[i]

\* the placeholder forms, in lower case: "party" + whitespace + a/b/1/2,
\* "plaintiff", "defendant"
MaxGap ==
    2

PlaceholderForms ==
    {W_party \o gap \o <<c>> :
        gap \in UNION {[1..n -> WS] : n \in 0..MaxGap}, c \in {"a", "b", "1", "2"}}
    \cup {W_plaintiff, W_defendant}

IsPlaceholderForm(p) ==
    LowerStr(Strip(p)) \in PlaceholderForms

Survives(p) ==
    \E j \in 1..Len(cl_out) : LowerStr(cl_out[j]) = LowerStr(Strip(p))

\* C8: a non-empty entry is dropped by the placeholder filter exactly when
\* the whole trimmed entry is, ignoring case, a placeholder form; an entry
\* that only starts with or contains one ("Party Planning Co.") survives,
\* "Party A" does not.
C8_ExactPlaceholderMatch ==
    cl_pc \in {"cleaned", "done"}
        => \A i \in 1..Len(cl_raw) :
              /\ cl_raw[i] # <<>> => (Survives(cl_raw[i]) <=> ~IsPlaceholderForm(cl_raw[i]))
              /\ cl_raw[i] = S_PartyPlanning
                    => \E j \in 1..Len(cl_out) : cl_out[j] = S_PartyPlanning
              /\ cl_raw[i] = S_PartyA => ~Survives(S_PartyA)

C8_Witness ==
    /\ cl_pc = "done"
    /\ cl_raw = <<S_PartyPlanning, S_PartyA, S_PartyBus>>
    /\ cl_out = <<S_PartyPlanning, S_PartyBus>>

\* the first position of cl_raw holding an entry that equals p up to case and
\* surrounding whitespace
FirstIdx(p) ==
    CHOOSE i \in 1..Len(cl_raw) :
        /\ LowerStr(Strip(cl_raw[i])) = LowerStr(Strip(p))
        /\ \A j \in 1..(i - 1) : LowerStr(Strip(cl_raw[j])) # LowerStr(Strip(p))

\* C9: of the names that differ only in case or surrounding whitespace exactly
\* one survives, trimmed and with the casing of the first one in the input, and
\* the survivors keep the input's relative order.
C9_DedupKeepsFirst ==
    cl_pc \in {"cleaned", "done"}
        => /\ \A a, b \in 1..Len(cl_out) :
                 a # b => LowerStr(cl_out[a]) # LowerStr(cl_out[b])
           /\ \A i \in 1..Len(cl_raw) :
                 (Strip(cl_raw[i]) # <<>> /\ ~IsPlaceholderForm(cl_raw[i]))
                     => \E j \in 1..Len(cl_out) :
                           /\ LowerStr(cl_out[j]) = LowerStr(Strip(cl_raw[i]))
                           /\ cl_out[j] = Strip(cl_raw[FirstIdx(cl_raw[i])])
           /\ \A a, b \in 1..Len(cl_out) :
                 (a < b /\ cl_out[a] # <<>> /\ cl_out[b] # <<>>)
                     => FirstIdx(cl_out[a]) < FirstIdx(cl_out[b])

C9_Witness ==
    /\ cl_pc = "done"
    /\ cl_raw = <<S_ACME_CORP, S_Globex, S_AcmePadded>>
    /\ cl_out = <<S_ACME_CORP, S_Globex>>

\* C10: the session's party list never holds a placeholder, and its entries
\* are pairwise distinct ignoring case.
C10_PartyListInvariant ==
    /\ \A i \in 1..Len(parties) : ~IsPlaceholderForm(parties[i])
    /\ \A a, b \in 1..Len(parties) :
          a # b => LowerStr(parties[a]) # LowerStr(parties[b])

Stage1Widgets ==
    {"selector", "manual", "manual_selector"}

\* C11: the flow is sequential: at most one remote request is in flight, the
\* stage-1 widgets are first rendered by the run that follows the return of
\* detect_parties, nothing but the uploader is shown while detection is in
\* flight, and an analysis request is issued only from an idle stage-1 page
\* whose selector holds a party, for a party of the list.
C11_Sequential ==
    [][/\ Len(request) <= 1
       /\ Len(request') <= 1
       /\ pc \in {"ask1", "ask2"}
             => (stage = 0 /\ view = "upload" /\ request # <<>> /\ request[1].op = "detect")
       /\ pc = "analyze" => (request # <<>> /\ request[1].op = "analyze")
       /\ pc \in {"idle", "rerun"} => request = <<>>
       /\ (view' \in Stage1Widgets /\ view \notin Stage1Widgets)
             => /\ pc = "rerun"
                /\ stage = 1
                /\ request = <<>>
                /\ Len(results) >= 1
                /\ parties = Last(results)
       /\ (pc' = "analyze" /\ pc # "analyze")
             => /\ pc = "idle"
                /\ stage = 1
                /\ view \in {"selector", "manual_selector"}
                /\ party # <<>>
                /\ request = <<>>
                /\ party' # <<>>
                /\ request'[1].party = party'[1]
                /\ \E i \in 1..Len(parties') : parties'[i] = party'[1]]_vars

C11_Witness ==
    /\ pc = "analyze"
    /\ view = "selector"
    /\ Len(parties) >= 2
    /\ party = <<parties[2]>>
    /\ request = <<AnalyzePrompt(parties[2], doc)>>

\* C12 as stated: the stage is 0, 1 or 2, every stage change is 0 to 1 or
\* 1 to 2, and no step takes the session back to an earlier stage.
C12_NoWayBack ==
    [][/\ stage \in {0, 1, 2}
       /\ stage' \in {0, 1, 2}
       /\ \/ stage' = stage
          \/ (stage = 0 /\ stage' = 1)
          \/ (stage = 1 /\ stage' = 2)]_vars

\* C12 amended: the stage is 0, 1 or 2 and every stage change is 0 to 1 or
\* 1 to 2, except that "New Document", pressed on the report page of stage 2,
\* clears the session and takes it back to stage 0; nothing else moves the
\* session to an earlier stage.
C12_LinearUntilReset ==
    [][/\ stage \in {0, 1, 2}
       /\ stage' \in {0, 1, 2}
       /\ \/ stage' = stage
          \/ (stage = 0 /\ stage' = 1)
          \/ (stage = 1 /\ stage' = 2)
          \/ (stage = 2 /\ stage' = 0 /\ pc = "idle" /\ view = "report" /\ cleared')]_vars

C12_Witness ==
    /\ cleared
    /\ stage = 0
    /\ pc = "rerun"
    /\ view = "report"

\* C13: once detection has been started on the extracted text and while the
\* stage is 1 or 2, no step but the reset changes the session's document, and
\* every detection and analysis request carries the session's document, so
\* the analysis is asked about the text detection was asked about.
C13_DocImmutable ==
    [][/\ (stage \in {1, 2} /\ ~cleared') => doc' = doc
       /\ pc \in {"ask1", "ask2"} => (doc' = doc /\ request[1].text = doc)
       /\ pc' \in {"ask1", "ask2"} => request'[1].text = doc'
       /\ pc' = "analyze" => (request'[1].text = doc' /\ doc' = doc)]_vars

C13_Witness ==
    /\ pc = "analyze"
    /\ upload # NoFile
    /\ doc # EmptyText
    /\ doc # load_text(upload)
    /\ request[1].text = doc

\* C14: the session's document never has more than MAX_CHARS characters; when
\* load_text has just run, no exception is raised, a text of at most MAX_CHARS
\* characters is stored unchanged, and a longer one is cut to its first
\* MAX_CHARS characters.
C14_Truncated ==
    /\ doc.len <= MAX_CHARS
    /\ pc = "ask1"
          => /\ err = ""
             /\ upload.len <= MAX_CHARS
                   => (doc.len = upload.len /\ (upload.len > 0 => doc.id = upload.id))
             /\ upload.len > MAX_CHARS
                   => (doc.len = MAX_CHARS /\ doc.id = upload.id)

C14_Witness ==
    /\ pc = "ask1"
    /\ upload.len = MAX_CHARS + 1
    /\ doc.len = MAX_CHARS

\* an analysis completion arrives in this step
AnalyzeReplied ==
    /\ pc = "analyze"
    /\ Len(raws') = Len(raws) + 1

\* C15 as stated: a press of Analyze issues one remote request and the report
\* stored in the session is the remote completion, unmodified.
C15_ReportUnmodified ==
    [][AnalyzeReplied => (calls' = 1 /\ analysis' = Last(raws'))]_vars

\* C15 amended: a press of Analyze issues exactly one remote request, with no
\* retry; the report stored in the session is the remote completion with its
\* leading and trailing whitespace stripped and otherwise unmodified, whatever
\* its content, and it stays the same while the stage is 2.
C15_ReportStripped ==
    [][/\ (pc' = "analyze" /\ pc # "analyze") => calls' = 1
       /\ pc = "analyze" => (calls = 1 /\ calls' = 1 /\ pc' # "analyze")
       /\ AnalyzeReplied
             => /\ analysis' = Strip(Last(raws'))
                /\ stage' = 2
                /\ pc' = "rerun"
                /\ err' = ""
       /\ (stage = 2 /\ stage' = 2) => analysis' = analysis]_vars

C15_Witness ==
    /\ pc = "idle"
    /\ stage = 2
    /\ view = "report"
    /\ calls = 1
    /\ raws = <<R_Padded>>
    /\ analysis = R_Plain

\* C16: when the remote service fails during a detection or analysis request,
\* the step ends there: no further request is issued (a failed first detection
\* request is not followed by the second one), the stage does not advance, and
\* the party list and the report keep their values.
C16_FailureEndsStep ==
    [][(pc \in {"ask1", "ask2", "analyze"} /\ err' = "APIError")
          => /\ pc' = "idle"
             /\ request' = <<>>
             /\ calls' = calls
             /\ raws' = raws
             /\ stage' = stage
             /\ parties' = parties
             /\ analysis' = analysis]_vars

C16_Witness ==
    /\ pc = "idle"
    /\ err = "APIError"
    /\ stage = 0
    /\ upload # NoFile
    /\ calls = 1
    /\ raws = <<>>
    /\ parties = <<>>

\* C17: when the first detection completion yields at least two names, the
\* session's party list is the normalized list of that completion, no second
\* request is issued, and the next run shows the selector over exactly that
\* list; {"parties": ["Acme Corp", "Globex Inc."]} gives ["Acme Corp",
\* "Globex Inc."].
C17_FirstResultSelected ==
    [][/\ (pc = "ask1" /\ DetectReplied /\ err' = "" /\ Len(results'[1]) >= 2)
             => /\ parties' = results'[1]
                /\ calls' = 1
                /\ stage' = 1
                /\ pc' = "rerun"
                /\ request' = <<>>
       /\ (pc = "ask1" /\ DetectReplied /\ Last(raws').kind = "object"
              /\ Last(raws') = JNames(<<S_AcmeCorp, S_Globex>>))
             => (err' = "" /\ parties' = <<S_AcmeCorp, S_Globex>> /\ stage' = 1)
       /\ (pc = "rerun" /\ stage = 1 /\ Len(parties) >= 2)
             => /\ pc' = "idle"
                /\ view' = "selector"
                /\ parties' = parties
                /\ party' = <<parties[1]>>]_vars

C17_Witness ==
    /\ pc = "idle"
    /\ stage = 1
    /\ view = "selector"
    /\ parties = <<S_AcmeCorp, S_Globex>>
    /\ Len(raws) = 1
    /\ results = <<parties>>
    /\ calls = 1

\* C18: "New Document" discards the session record in one step, and the next
\* rendered page is the stage-0 upload page with the document, the party list
\* and the report back at their empty initial values.
C18_ResetClearsAll ==
    [][/\ (pc = "idle" /\ stage = 2 /\ cleared')
             => (stage' = 0 /\ doc' = EmptyText /\ parties' = <<>> /\ analysis' = <<>>)
       /\ (pc = "rerun" /\ cleared)
             => /\ pc' = "idle"
                /\ view' = "upload"
                /\ stage' = 0
                /\ doc' = EmptyText
                /\ parties' = <<>>
                /\ analysis' = <<>>]_vars

\* C19: a detection whose requests are answered, with any content, ends with
\* the session at stage 1 (after the first completion, or after the second
\* one when the first result was insufficient); detection runs only at stage
\* 0 and the stage becomes 1 only by its return.
C19_UploadReachesStage1 ==
    [][/\ (pc = "ask1" /\ DetectReplied)
             => (pc' = "ask2" \/ (stage' = 1 /\ pc' = "rerun"))
       /\ (pc = "ask2" /\ DetectReplied) => (stage' = 1 /\ pc' = "rerun")
       /\ pc' \in {"ask1", "ask2"} => stage' = 0
       /\ (stage = 0 /\ stage' = 1) => pc \in {"ask1", "ask2"}]_vars

====
